---- MODULE Spec2Model ----
(***************************************************************************)
(* Metro signage backend: feed ingestion, normalisation, staleness         *)
(* tracking and broadcast.  Two backends are modelled:                     *)
(*   variant "A"  metro_signage_structure_A/backend/main.py  (Golemio JSON) *)
(*   variant "C"  metro_signage_structure_C/backend/main.py  (GTFS-RT)      *)
(* Python strings are sequences of one-character strings, so that strip,   *)
(* upper, slicing and the code-point ordering used by sort are computed.   *)
(* Instants are whole seconds since the epoch.                             *)
(***************************************************************************)
EXTENDS Integers, Sequences, FiniteSets, TLC

(* ------------------------------ bounds -------------------------------- *)
\* the clock advances in steps of TickSeconds up to MaxTime
TickSeconds == 60
MaxTime == 120
\* number of client connections that may open /ws/updates
NumConns == 2
\* longest payload / feed / fallback document built entry by entry
MaxEntries == 3

(* ------------------------- program constants -------------------------- *)
REFRESH_SECONDS == 10
WS_PUSH_SECONDS == 5
OFFLINE_AFTER_SECONDS == 60
PUSH_LIMIT == 20
GTFS_LIMIT == 50
ROUTE_ID_LEN == 10
POLL_INTERVAL == 5
C_PUSH_SECONDS == 5

(* ------------------------------ strings ------------------------------- *)
\* code points of the characters the model uses (Python compares str by them)
Ord(c) ==
  CASE c = " " -> 32
    [] c = "?" -> 63
    [] c = "A" -> 65
    [] c = "B" -> 66
    [] c = "C" -> 67
    [] c = "D" -> 68
    [] c = "R" -> 82
    [] c = "X" -> 88
    [] c = "Y" -> 89
    [] c = "a" -> 97
    [] c = "b" -> 98
    [] c = "k" -> 107
    [] c = "-" -> 8212

\* str.upper()
UpperChar(c) ==
  CASE c = "a" -> "A"
    [] c = "b" -> "B"
    [] c = "k" -> "K"
    [] OTHER -> c

Upper(s) == [i \in 1..Len(s) |-> UpperChar(s[i])]

IsSpace(c) == c = " "

RECURSIVE LStrip(_)
LStrip(s) == IF s # <<>> /\ IsSpace(Head(s)) THEN LStrip(Tail(s)) ELSE s

RECURSIVE RStrip(_)
RStrip(s) ==
  IF s # <<>> /\ IsSpace(s[Len(s)]) THEN RStrip(SubSeq(s, 1, Len(s) - 1)) ELSE s

\* str.strip()
Strip(s) == RStrip(LStrip(s))

\* s[:n]
Prefix(s, n) == SubSeq(s, 1, IF Len(s) < n THEN Len(s) ELSE n)

\* s < t for Python str: lexicographic by code point
RECURSIVE StrLess(_, _)
StrLess(s, t) ==
  IF t = <<>> THEN FALSE
  ELSE IF s = <<>> THEN TRUE
  ELSE IF Ord(Head(s)) # Ord(Head(t)) THEN Ord(Head(s)) < Ord(Head(t))
  ELSE StrLess(Tail(s), Tail(t))

\* x or y, for an optional string: None and "" are both falsy and both <<>>
Truthy(s) == s # <<>>
OrStr(s, t) == IF Truthy(s) THEN s ELSE t

\* the placeholder destination, the one-character string U+2014
DASH == <<"-">>
QMARK == <<"?">>

Max(a, b) == IF a >= b THEN a ELSE b

\* the sort keys of the code: (in_min, dest) when byDest, in_min alone otherwise
KeyLess(byDest, x, y) ==
  \/ x.in_min < y.in_min
  \/ byDest /\ x.in_min = y.in_min /\ StrLess(x.dest, y.dest)

\* list.sort(key=...) / sorted(key=...): stable insertion sort
RECURSIVE InsertStable(_, _, _)
InsertStable(byDest, x, s) ==
  IF s = <<>> THEN <<x>>
  ELSE IF KeyLess(byDest, x, Head(s)) THEN <<x>> \o s
  ELSE <<Head(s)>> \o InsertStable(byDest, x, Tail(s))

RECURSIVE SortStable(_, _)
SortStable(byDest, s) ==
  IF s = <<>> THEN <<>>
  ELSE InsertStable(byDest, s[Len(s)], SortStable(byDest, SubSeq(s, 1, Len(s) - 1)))

(* ----------------- variant A: Golemio departure boards ---------------- *)
\* a JSON object is a record; a missing key is a field the record lacks
EmptyDict == <<>>
Has(d, k) == k \in DOMAIN d
\* d.get(k) or alt
GetOr(d, k, alt) == IF Has(d, k) /\ d[k] # <<>> THEN d[k] ELSE alt

\* An ISO-8601 string is [fmt |-> "iso", wall |-> seconds on the wall clock it
\* names, zone |-> its suffix]; [fmt |-> "bad"] is a string fromisoformat
\* rejects, [fmt |-> "empty"] is "".
ZoneOffset(z) ==
  CASE z = "+00:00" -> 0
    [] z = "+01:00" -> 3600
    [] z = "-01:00" -> 0 - 3600

\* s.replace("Z", "+00:00")
ReplaceZ(s) == IF s.zone = "Z" THEN [s EXCEPT !.zone = "+00:00"] ELSE s

\* _parse_iso: {} is None, {t} the UTC instant t
_parse_iso(d, k) ==
  IF ~Has(d, k) \/ d[k].fmt = "empty" THEN {}
  ELSE IF d[k].fmt = "bad" THEN {}
  ELSE LET r == ReplaceZ(d[k])
       IN IF r.zone = "naive" THEN {r.wall}
          ELSE {r.wall - ZoneOffset(r.zone)}

\* _minutes_until for a timestamp that is not None
_minutes_until(ts_utc, now_utc) == Max(0, (ts_utc - now_utc) \div 60)

\* datetime.isoformat() of a UTC instant
IsoFormat(t) == [iso |-> t]

TheOne(S) == CHOOSE x \in S : TRUE

\* a filter that lets an entry without a short name through
\* ("if line and line != metro_line: continue")
LineMatches_MissingPasses(dep, metro_line) ==
  LET line == Upper(Strip(GetOr(GetOr(dep, "route", EmptyDict), "short_name", <<>>)))
  IN  line = <<>> \/ line = metro_line

\* the "line != metro_line: continue" test of the loop
LineMatches(dep, metro_line) ==
  Upper(Strip(GetOr(GetOr(dep, "route", EmptyDict), "short_name", <<>>))) = metro_line

DestOf(dep) ==
  LET trip == GetOr(dep, "trip", EmptyDict)
      last_stop == GetOr(dep, "last_stop", EmptyDict)
      raw == GetOr(trip, "headsign", GetOr(last_stop, "name", DASH))
  IN  IF Strip(raw) # <<>> THEN Strip(raw) ELSE DASH

\* scheduled or predicted: the preference the other way round
UsedTs_ScheduledFirst(dep) ==
  LET ts == GetOr(dep, "departure_timestamp", EmptyDict)
      predicted == _parse_iso(ts, "predicted")
      scheduled == _parse_iso(ts, "scheduled")
  IN  IF scheduled # {} THEN scheduled ELSE predicted

\* predicted or scheduled
UsedTs(dep) ==
  LET ts == GetOr(dep, "departure_timestamp", EmptyDict)
      predicted == _parse_iso(ts, "predicted")
      scheduled == _parse_iso(ts, "scheduled")
  IN  IF predicted # {} THEN predicted ELSE scheduled

\* the loop body writing the module's METRO_LINE instead of its argument
NormalizeOne_ConstantLine(dep, metro_line, now) ==
  IF ~LineMatches(dep, metro_line) THEN <<>>
  ELSE IF UsedTs(dep) = {} THEN <<>>
  ELSE << [line |-> <<"A">>,
           dest |-> DestOf(dep),
           in_min |-> _minutes_until(TheOne(UsedTs(dep)), now),
           t_utc |-> IsoFormat(TheOne(UsedTs(dep)))] >>

\* the body of the for loop: the records one entry appends to out
NormalizeOne(dep, metro_line, now) ==
  IF ~LineMatches(dep, metro_line) THEN <<>>
  ELSE IF UsedTs(dep) = {} THEN <<>>
  ELSE << [line |-> metro_line,
           dest |-> DestOf(dep),
           in_min |-> _minutes_until(TheOne(UsedTs(dep)), now),
           t_utc |-> IsoFormat(TheOne(UsedTs(dep)))] >>

RECURSIVE NormalizeLoop(_, _, _)
NormalizeLoop(deps, metro_line, now) ==
  IF deps = <<>> THEN <<>>
  ELSE NormalizeOne(Head(deps), metro_line, now)
         \o NormalizeLoop(Tail(deps), metro_line, now)

\* payload.get("departures", []) or []
PayloadDepartures(payload) == GetOr(payload, "departures", <<>>)

\* normalize_departureboards(payload, metro_line=...) at the instant now
normalize_departureboards(payload, metro_line, now) ==
  SortStable(TRUE,
    NormalizeLoop(PayloadDepartures(payload), Upper(Strip(metro_line)), now))

(* ------------------------ variant C: GTFS-RT --------------------------- *)
\* A FeedMessage is [entity |-> <<...>>]; an entity that carries a trip update
\* has the field trip_update = [trip |-> [route_id, trip_headsign],
\* stop_time_update |-> <<...>>]; a stop-time update that carries an arrival
\* has the field arrival = [time |-> n], n = 0 when the time is unset.

\* int(x / 60): true division, then truncation towards zero
TruncDiv60(x) == IF x >= 0 THEN x \div 60 ELSE 0 - ((0 - x) \div 60)

\* int(datetime.datetime.utcnow().timestamp()): the naive UTC wall time is
\* read back as local time, localOffset seconds east of UTC
NowTs(now, localOffset) == now - localOffset

\* stu.HasField("arrival") and getattr(stu.arrival, "time", None)
CarriesArrival(stu) == Has(stu, "arrival") /\ stu.arrival.time # 0

\* an inner loop without the break, keeping the last update with an arrival
LastArrival(stus) ==
  LET carrying == { j \in 1..Len(stus) : CarriesArrival(stus[j]) }
  IN  IF carrying = {} THEN {}
      ELSE { stus[CHOOSE j \in carrying : \A k \in carrying : k <= j].arrival.time }

\* the inner for loop with its break: the first update that carries an arrival
RECURSIVE FirstArrival(_)
FirstArrival(stus) ==
  IF stus = <<>> THEN {}
  ELSE IF CarriesArrival(Head(stus)) THEN {Head(stus).arrival.time}
  ELSE FirstArrival(Tail(stus))

\* the records one entity appends to departures
GtfsOne(entity, now_ts) ==
  IF ~Has(entity, "trip_update") THEN <<>>
  ELSE LET tu == entity.trip_update
           route_id == Prefix(GetOr(tu.trip, "route_id", <<>>), ROUTE_ID_LEN)
           trip_headsign == GetOr(tu.trip, "trip_headsign", <<>>)
           first == FirstArrival(tu.stop_time_update)
       IN  IF first = {} THEN <<>>
           ELSE << [line |-> OrStr(route_id, QMARK),
                    dest |-> OrStr(trip_headsign, OrStr(route_id, QMARK)),
                    in_min |-> Max(0, TruncDiv60(TheOne(first) - now_ts))] >>

RECURSIVE GtfsLoop(_, _)
GtfsLoop(entities, now_ts) ==
  IF entities = <<>> THEN <<>>
  ELSE GtfsOne(Head(entities), now_ts) \o GtfsLoop(Tail(entities), now_ts)

\* a fetch_gtfs_rt that returns the whole sorted list, without the [:50]
ParseGtfs_NoLimit(feed, now_ts) == SortStable(FALSE, GtfsLoop(feed.entity, now_ts))

\* fetch_gtfs_rt from feed.ParseFromString(content) on, for content that decodes
\* and whose entities are processed without an exception
ParseGtfs(feed, now_ts) ==
  Prefix(SortStable(FALSE, GtfsLoop(feed.entity, now_ts)), GTFS_LIMIT)

\* An entity or a stop-time update with the field malformed is one whose
\* processing raises (a binding that raises on access, a malformed structure).

\* the inner for loop raises: a malformed update is met before the break
RECURSIVE StusRaise(_)
StusRaise(stus) ==
  IF stus = <<>> THEN FALSE
  ELSE IF Has(Head(stus), "malformed") THEN TRUE
  ELSE IF CarriesArrival(Head(stus)) THEN FALSE
  ELSE StusRaise(Tail(stus))

\* the body of "for entity in feed.entity" raises
EntityRaises(entity) ==
  \/ Has(entity, "malformed")
  \/ Has(entity, "trip_update") /\ StusRaise(entity.trip_update.stop_time_update)

\* fetch_gtfs_rt from feed.ParseFromString(content) on: the loop has no
\* handler of its own, so an exception in it reaches "except Exception:
\* return None" of the function; {} is None
ParseGtfsOrNone(feed, now_ts) ==
  IF \E i \in 1..Len(feed.entity) : EntityRaises(feed.entity[i]) THEN {}
  ELSE { ParseGtfs(feed, now_ts) }

(* parse_feed_bytes of test_gtfs.py *)
\* the inner for loop: "continue" on an update without arrival, without a
\* truthy time, or whose processing raises; "break" after the first append
RECURSIVE FirstArrivalSkipping(_)
FirstArrivalSkipping(stus) ==
  IF stus = <<>> THEN {}
  ELSE IF Has(Head(stus), "malformed") THEN FirstArrivalSkipping(Tail(stus))
  ELSE IF CarriesArrival(Head(stus)) THEN {Head(stus).arrival.time}
  ELSE FirstArrivalSkipping(Tail(stus))

\* the records one entity appends; an entity whose processing raises is skipped
ParseFeedOne(entity, now_ts) ==
  IF Has(entity, "malformed") THEN <<>>
  ELSE IF ~Has(entity, "trip_update") THEN <<>>
  ELSE LET tu == entity.trip_update
           route_id == Prefix(GetOr(tu.trip, "route_id", <<>>), ROUTE_ID_LEN)
           trip_headsign == GetOr(tu.trip, "trip_headsign", <<>>)
           first == FirstArrivalSkipping(tu.stop_time_update)
       IN  IF first = {} THEN <<>>
           ELSE << [line |-> OrStr(route_id, QMARK),
                    dest |-> OrStr(trip_headsign, OrStr(route_id, QMARK)),
                    in_min |-> Max(0, TruncDiv60(TheOne(first) - now_ts))] >>

RECURSIVE ParseFeedLoop(_, _)
ParseFeedLoop(entities, now_ts) ==
  IF entities = <<>> THEN <<>>
  ELSE ParseFeedOne(Head(entities), now_ts) \o ParseFeedLoop(Tail(entities), now_ts)

\* parse_feed_bytes(content) for content that decodes: sorted, not truncated
parse_feed_bytes(feed, now_ts) == SortStable(FALSE, ParseFeedLoop(feed.entity, now_ts))

(* ------------------------- the running system -------------------------- *)
VARIABLES
  variant,            \* "A" or "C": which backend/main.py runs
  apiKeyEnv,          \* A: the value of GOLEMIO_API_KEY in the environment
  gtfsUrlEnv,         \* C: the value of GTFS_RT_URL in the environment
  localOffset,        \* C: the host's local zone, seconds east of UTC
  now,                \* the UTC clock
  app,                \* "starting", "up", "stopping", "stopped"
  LATEST_DEPARTURES,
  LAST_OK_UTC,        \* {} is None, {t} the instant t
  pollerPc,           \* POLL_TASK: "none", "ready", "awaiting", "sleep", "cancelled"
  pollerWake,         \* when the poller's asyncio.sleep ends
  conn,               \* per connection: pc "new", "ready", "sending", "sleep", "closed"
                      \* with the deadline of its sleep and the snapshot it last sent
  ev,                 \* what the step just taken sent, answered or concluded
  upstreamCalled,     \* some request has been handed to the upstream
  snapshotWritten,    \* LATEST_DEPARTURES has been assigned by the poller
  doc,                \* parsers on their own: the entries of the document at hand
  result              \* parsers on their own: the last call and what it returned

sysVars == <<variant, apiKeyEnv, gtfsUrlEnv, localOffset, now, app,
             LATEST_DEPARTURES, LAST_OK_UTC, pollerPc, pollerWake, conn, ev,
             upstreamCalled, snapshotWritten>>
pureVars == <<doc, result>>
vars == <<sysVars, pureVars>>

Conns == 1..NumConns
\* a connection: the position of its handler, the deadline of its sleep, and
\* seen, the value LAST_OK_UTC had when the handler last built a message
NewConn == [pc |-> "new", wake |-> 0, seen |-> {}]
ClosedConn == [pc |-> "closed", wake |-> 0, seen |-> {}]
NoEvent == [type |-> "none"]

METRO_LINE == <<"A">>
\* API_KEY = os.getenv("GOLEMIO_API_KEY", "").strip()
API_KEY == Strip(apiKeyEnv)

ApiKeyEnvs == { <<>>, <<" ">>, <<"k">> }

\* GTFS_RT_URL values: unset, file:// URI, HTTP URL in capitals, plain path
UrlUnset == <<>>
UrlFileUri == <<"f", "i", "l", "e", ":", "/", "/", "f">>
UrlHttp == <<"H", "T", "T", "P", ":", "/", "/", "h">>
UrlPath == <<"f">>
GtfsUrlEnvs == {UrlUnset, UrlFileUri, UrlHttp, UrlPath}
LocalOffsets == {0, 3600}

LowerChar(c) ==
  CASE c = "H" -> "h"
    [] c = "T" -> "t"
    [] c = "P" -> "p"
    [] c = "S" -> "s"
    [] OTHER -> c
Lower(s) == [i \in 1..Len(s) |-> LowerChar(s[i])]
StartsWith(s, p) == Len(s) >= Len(p) /\ SubSeq(s, 1, Len(p)) = p

IsFileUri(url) == StartsWith(url, <<"f", "i", "l", "e", ":", "/", "/">>)
IsHttpUrl(url) ==
  \/ StartsWith(Lower(url), <<"h", "t", "t", "p", ":", "/", "/">>)
  \/ StartsWith(Lower(url), <<"h", "t", "t", "p", "s", ":", "/", "/">>)

\* _is_online() with "<" for "<="
_is_online_strict ==
  IF LAST_OK_UTC = {} THEN FALSE
  ELSE now - TheOne(LAST_OK_UTC) < OFFLINE_AFTER_SECONDS

\* _is_online()
_is_online ==
  IF LAST_OK_UTC = {} THEN FALSE
  ELSE now - TheOne(LAST_OK_UTC) <= OFFLINE_AFTER_SECONDS

(* what the upstream may answer *)
DepA(short_name, headsign, wall) ==
  [route |-> [short_name |-> short_name],
   trip |-> [headsign |-> headsign],
   departure_timestamp |-> [scheduled |-> [fmt |-> "iso", wall |-> wall, zone |-> "Z"]]]

\* more entries than one push carries, latest departure first
LongPayload ==
  [departures |->
     [i \in 1..(PUSH_LIMIT + 2) |-> DepA(<<"A">>, <<"X">>, 60 * (PUSH_LIMIT + 12 - i))]]

SysPayloads ==
  { [meta |-> <<>>],
    [departures |-> << DepA(<<"B">>, <<"Y">>, 30) >>],
    [departures |-> << DepA(<<"A">>, <<"Y">>, 90), DepA(<<"a", " ">>, <<"X">>, 30) >>],
    LongPayload }

\* the outcome of client.get / raise_for_status / r.json
ResponsesA ==
  { [kind |-> "neterr"], [kind |-> "http_error"], [kind |-> "not_json"],
    [kind |-> "not_a_mapping"] }
  \cup { [kind |-> "json", payload |-> p] : p \in SysPayloads }

\* fetch_golemio_departures from the response on: {} is None
FetchGolemioResult(resp) ==
  IF resp.kind = "json"
  THEN { normalize_departureboards(resp.payload, METRO_LINE, now) }
  ELSE {}

EntityC(route_id, headsign, times) ==
  [trip_update |->
     [trip |-> [route_id |-> route_id, trip_headsign |-> headsign],
      stop_time_update |-> [i \in 1..Len(times) |-> [arrival |-> [time |-> times[i]]]]]]

\* more entities than one push carries, latest arrival first
LongFeed ==
  [entity |->
     [i \in 1..(PUSH_LIMIT + 2) |-> EntityC(<<"X">>, <<>>, <<60 * (PUSH_LIMIT + 12 - i)>>)]]

SysFeeds ==
  { [undecodable |-> TRUE],
    [entity |-> <<>>],
    [entity |-> << EntityC(<<"B">>, <<"Y">>, <<90>>), EntityC(<<"A">>, <<"X">>, <<90, 30>>) >>],
    [entity |-> << [malformed |-> TRUE], EntityC(<<"A">>, <<"X">>, <<90>>) >>],
    LongFeed }

\* the outcome of reading the locator: the file or the HTTP exchange
ReadsC ==
  { [kind |-> "missing"], [kind |-> "neterr"], [kind |-> "http_error"] }
  \cup { [kind |-> "content", content |-> f] : f \in SysFeeds }

\* the reads a locator can end in
ReadsFor(url) ==
  IF IsHttpUrl(url) THEN { r \in ReadsC : r.kind # "missing" }
  ELSE { r \in ReadsC : r.kind \in {"missing", "content"} }

\* fetch_gtfs_rt from the read on: {} is None
FetchGtfsResult(read) ==
  IF read.kind = "content" /\ Has(read.content, "entity")
  THEN ParseGtfsOrNone(read.content, NowTs(now, localOffset))
  ELSE {}

(* ------------------------------ the poller ----------------------------- *)
\* the poller is about to run from the top of its while loop: the task was
\* just created, or the timer of its asyncio.sleep has fired
PollerAtLoopTop == app = "up" /\ pollerPc = "ready"

\* a poller that stores "deps or []": a failed fetch empties the snapshot
StoreCycle_ClearsOnFailure(deps) ==
  [latest |-> IF deps # {} THEN TheOne(deps) ELSE <<>>,
   last_ok |-> IF deps # {} /\ variant = "A" THEN {now} ELSE LAST_OK_UTC,
   written |-> snapshotWritten \/ deps # {}]

\* a poller that extends the stored list in place instead of rebinding it
StoreCycle_ExtendsInPlace(deps) ==
  [latest |-> IF deps # {} THEN LATEST_DEPARTURES \o TheOne(deps) ELSE LATEST_DEPARTURES,
   last_ok |-> IF deps # {} /\ variant = "A" THEN {now} ELSE LAST_OK_UTC,
   written |-> snapshotWritten \/ deps # {}]

\* a poller that tests "if deps:" and so ignores a cycle that parsed no record
StoreCycle_IgnoresEmptyList(deps) ==
  [latest |-> IF deps # {} /\ deps # {<<>>} THEN TheOne(deps) ELSE LATEST_DEPARTURES,
   last_ok |-> IF deps # {} /\ deps # {<<>>} /\ variant = "A" THEN {now}
               ELSE LAST_OK_UTC,
   written |-> snapshotWritten \/ (deps # {} /\ deps # {<<>>})]

\* "if deps is not None: LATEST_DEPARTURES = deps; LAST_OK_UTC = _utc_now()"
\* (poller_loop); variant C keeps no LAST_OK_UTC (gtfs_poller_loop)
StoreCycle(deps) ==
  [latest |-> IF deps # {} THEN TheOne(deps) ELSE LATEST_DEPARTURES,
   last_ok |-> IF deps # {} /\ variant = "A" THEN {now} ELSE LAST_OK_UTC,
   written |-> snapshotWritten \/ deps # {}]

CycleEvent(deps, why) ==
  [type |-> "cycle", result |-> IF deps # {} THEN "ok" ELSE "fail", why |-> why]

\* a poller that retries at once after a failure and sleeps only after success
FinishCycle_RetriesAtOnce(deps, why, interval) ==
  LET stored == StoreCycle(deps)
  IN  /\ LATEST_DEPARTURES' = stored.latest
      /\ LAST_OK_UTC' = stored.last_ok
      /\ snapshotWritten' = stored.written
      /\ pollerPc' = IF deps # {} THEN "sleep" ELSE "ready"
      /\ pollerWake' = IF deps # {} THEN now + interval ELSE 0
      /\ ev' = CycleEvent(deps, why)

\* the rest of a cycle once fetch has returned deps: store, then asyncio.sleep
FinishCycle(deps, why, interval) ==
  LET stored == StoreCycle(deps)
  IN  /\ LATEST_DEPARTURES' = stored.latest
      /\ LAST_OK_UTC' = stored.last_ok
      /\ snapshotWritten' = stored.written
      /\ pollerPc' = "sleep"
      /\ pollerWake' = now + interval
      /\ ev' = CycleEvent(deps, why)

\* the credential test without the .strip() of line 63
CredentialMissing_NoStrip == apiKeyEnv = <<>>

\* "if not API_KEY: return None"
CredentialMissing == API_KEY = <<>>

\* A: a cycle without credential returns None before any request is made
PollerCycleNoKey ==
  /\ variant = "A" /\ PollerAtLoopTop /\ CredentialMissing
  /\ FinishCycle({}, "credential", REFRESH_SECONDS)
  /\ UNCHANGED pureVars
  /\ UNCHANGED <<variant, apiKeyEnv, gtfsUrlEnv, localOffset, now, app, conn,
                 upstreamCalled>>

\* A: "r = await client.get(...)" suspends the poller
PollerRequestA ==
  /\ variant = "A" /\ PollerAtLoopTop /\ ~CredentialMissing
  /\ pollerPc' = "awaiting"
  /\ upstreamCalled' = TRUE
  /\ ev' = NoEvent
  /\ UNCHANGED pureVars
  /\ UNCHANGED <<variant, apiKeyEnv, gtfsUrlEnv, localOffset, now, app,
                 LATEST_DEPARTURES, LAST_OK_UTC, pollerWake, conn, snapshotWritten>>

\* A: the request ends; parse, store, sleep
PollerResponseA(resp) ==
  /\ variant = "A" /\ app = "up" /\ pollerPc = "awaiting"
  /\ FinishCycle(FetchGolemioResult(resp), resp.kind, REFRESH_SECONDS)
  /\ UNCHANGED pureVars
  /\ UNCHANGED <<variant, apiKeyEnv, gtfsUrlEnv, localOffset, now, app, conn,
                 upstreamCalled>>

\* C: a file:// URI or a plain path is read and parsed without suspending
PollerCycleFileC(read) ==
  /\ variant = "C" /\ PollerAtLoopTop /\ ~IsHttpUrl(gtfsUrlEnv)
  /\ read \in ReadsFor(gtfsUrlEnv)
  /\ FinishCycle(FetchGtfsResult(read), read.kind, POLL_INTERVAL)
  /\ UNCHANGED pureVars
  /\ UNCHANGED <<variant, apiKeyEnv, gtfsUrlEnv, localOffset, now, app, conn,
                 upstreamCalled>>

\* C: "r = await client.get(url, ...)" suspends the poller
PollerRequestC ==
  /\ variant = "C" /\ PollerAtLoopTop /\ IsHttpUrl(gtfsUrlEnv)
  /\ pollerPc' = "awaiting"
  /\ upstreamCalled' = TRUE
  /\ ev' = NoEvent
  /\ UNCHANGED pureVars
  /\ UNCHANGED <<variant, apiKeyEnv, gtfsUrlEnv, localOffset, now, app,
                 LATEST_DEPARTURES, LAST_OK_UTC, pollerWake, conn, snapshotWritten>>

\* C: the request ends; parse, store, sleep
PollerResponseC(read) ==
  /\ variant = "C" /\ app = "up" /\ pollerPc = "awaiting"
  /\ read \in ReadsFor(gtfsUrlEnv)
  /\ FinishCycle(FetchGtfsResult(read), read.kind, POLL_INTERVAL)
  /\ UNCHANGED pureVars
  /\ UNCHANGED <<variant, apiKeyEnv, gtfsUrlEnv, localOffset, now, app, conn,
                 upstreamCalled>>

(* -------------------------- startup and shutdown ----------------------- *)
\* _startup / startup_event: C creates the task only "if GTFS_URL"
PollTaskCreated == variant = "A" \/ gtfsUrlEnv # <<>>

Startup ==
  /\ app = "starting"
  /\ app' = "up"
  /\ pollerPc' = IF PollTaskCreated THEN "ready" ELSE "none"
  /\ ev' = NoEvent
  /\ UNCHANGED pureVars
  /\ UNCHANGED <<variant, apiKeyEnv, gtfsUrlEnv, localOffset, now,
                 LATEST_DEPARTURES, LAST_OK_UTC, pollerWake, conn,
                 upstreamCalled, snapshotWritten>>

\* _shutdown / shutdown_event up to "await POLL_TASK": POLL_TASK.cancel()
Shutdown ==
  /\ app = "up"
  /\ app' = "stopping"
  /\ ev' = NoEvent
  /\ UNCHANGED pureVars
  /\ UNCHANGED <<variant, apiKeyEnv, gtfsUrlEnv, localOffset, now,
                 LATEST_DEPARTURES, LAST_OK_UTC, pollerPc, pollerWake, conn,
                 upstreamCalled, snapshotWritten>>

\* CancelledError is thrown into the poller at the await it is suspended in
PollerCancelled ==
  /\ app = "stopping"
  /\ pollerPc \in {"ready", "awaiting", "sleep"}
  /\ pollerPc' = "cancelled"
  /\ ev' = NoEvent
  /\ UNCHANGED pureVars
  /\ UNCHANGED <<variant, apiKeyEnv, gtfsUrlEnv, localOffset, now, app,
                 LATEST_DEPARTURES, LAST_OK_UTC, pollerWake, conn,
                 upstreamCalled, snapshotWritten>>

\* a shutdown handler that cancels the task and returns without awaiting it
ShutdownDone_NoAwait ==
  /\ app = "stopping"
  /\ app' = "stopped"
  /\ ev' = NoEvent
  /\ UNCHANGED pureVars
  /\ UNCHANGED <<variant, apiKeyEnv, gtfsUrlEnv, localOffset, now,
                 LATEST_DEPARTURES, LAST_OK_UTC, pollerPc, pollerWake, conn,
                 upstreamCalled, snapshotWritten>>

\* "await POLL_TASK" returns once the task has ended
ShutdownDone ==
  /\ app = "stopping"
  /\ pollerPc \in {"none", "cancelled"}
  /\ app' = "stopped"
  /\ ev' = NoEvent
  /\ UNCHANGED pureVars
  /\ UNCHANGED <<variant, apiKeyEnv, gtfsUrlEnv, localOffset, now,
                 LATEST_DEPARTURES, LAST_OK_UTC, pollerPc, pollerWake, conn,
                 upstreamCalled, snapshotWritten>>

(* ---------------------------- broadcasters ----------------------------- *)
\* in_min = random.randint(1, 12) for each of base_lines: the draws the model takes
RandomDraws == { <<1, 1, 1, 1>>, <<12, 12, 12, 12>>, <<3, 12, 1, 7>> }

\* base_lines of websocket_endpoint
base_lines ==
  << [line |-> <<"A">>, dest |-> <<"M", "u", "z", "e", "u", "m">>],
     [line |-> <<"B">>, dest |-> <<"F", "l", "o", "r", "e", "n", "c">>],
     [line |-> <<"C">>, dest |-> <<"H", "r", "a", "d", "c", "a", "n", "s", "k", "a">>],
     [line |-> <<"D">>, dest |-> <<"H", "l", "o", "u", "b", "e", "t", "i", "n">>] >>

\* datetime.datetime.utcnow().isoformat(): no zone suffix
IsoFormatNaive(t) == [iso_naive |-> t]

\* ws_updates without the [:20] slice
PushDeparturesA_NoLimit ==
  IF LATEST_DEPARTURES # <<>> THEN LATEST_DEPARTURES
  ELSE << [line |-> METRO_LINE, dest |-> DASH, in_min |-> 0,
           t_utc |-> IsoFormat(now)] >>

\* A, ws_updates: the departures of one message
PushDeparturesA ==
  LET departures ==
        IF LATEST_DEPARTURES # <<>> THEN Prefix(LATEST_DEPARTURES, PUSH_LIMIT) ELSE <<>>
  IN  IF departures = <<>>
      THEN << [line |-> METRO_LINE, dest |-> DASH, in_min |-> 0,
               t_utc |-> IsoFormat(now)] >>
      ELSE departures

\* A, ws_updates: the message handed to ws.send_json
MessageA ==
  [t |-> IsoFormat(now), departures |-> PushDeparturesA, online |-> _is_online]

\* C, websocket_endpoint: the departures of one message, rnd the random draws
PushDeparturesC(rnd) ==
  IF LATEST_DEPARTURES # <<>> THEN Prefix(LATEST_DEPARTURES, PUSH_LIMIT)
  ELSE [i \in 1..Len(base_lines) |->
          [line |-> base_lines[i].line, dest |-> base_lines[i].dest,
           in_min |-> rnd[i]]]

\* C, websocket_endpoint: the message handed to websocket.send_json
MessageC(rnd) == [t |-> IsoFormatNaive(now), departures |-> PushDeparturesC(rnd)]

\* the draws that matter: none is made when the snapshot is used
Draws ==
  IF LATEST_DEPARTURES # <<>> THEN { <<1, 1, 1, 1>> }
  ELSE RandomDraws

\* the client opens /ws/updates; "await ws.accept()" suspends the handler
Connect(c) ==
  /\ app = "up" /\ conn[c].pc = "new"
  /\ conn' = [conn EXCEPT ![c].pc = "ready"]
  /\ ev' = NoEvent
  /\ UNCHANGED pureVars
  /\ UNCHANGED <<variant, apiKeyEnv, gtfsUrlEnv, localOffset, now, app,
                 LATEST_DEPARTURES, LAST_OK_UTC, pollerPc, pollerWake,
                 upstreamCalled, snapshotWritten>>

\* the broadcaster is about to run from the top of its while loop: accept has
\* returned, or the timer of its asyncio.sleep has fired
AtLoopTop(c) == conn[c].pc = "ready"

\* one pass of the loop up to "await ws.send_json(...)"
PushA(c) ==
  /\ variant = "A" /\ app \in {"up", "stopping"} /\ AtLoopTop(c)
  /\ conn' = [conn EXCEPT ![c].pc = "sending", ![c].seen = LAST_OK_UTC]
  /\ ev' = [type |-> "push", by |-> c, msg |-> MessageA]
  /\ UNCHANGED pureVars
  /\ UNCHANGED <<variant, apiKeyEnv, gtfsUrlEnv, localOffset, now, app,
                 LATEST_DEPARTURES, LAST_OK_UTC, pollerPc, pollerWake,
                 upstreamCalled, snapshotWritten>>

PushC(c, rnd) ==
  /\ variant = "C" /\ app \in {"up", "stopping"} /\ AtLoopTop(c)
  /\ rnd \in Draws
  /\ conn' = [conn EXCEPT ![c].pc = "sending"]
  /\ ev' = [type |-> "push", by |-> c, msg |-> MessageC(rnd)]
  /\ UNCHANGED pureVars
  /\ UNCHANGED <<variant, apiKeyEnv, gtfsUrlEnv, localOffset, now, app,
                 LATEST_DEPARTURES, LAST_OK_UTC, pollerPc, pollerWake,
                 upstreamCalled, snapshotWritten>>

\* the push interval: WS_PUSH_SECONDS in A, the literal 5 in C
PushInterval == IF variant = "A" THEN WS_PUSH_SECONDS ELSE C_PUSH_SECONDS

\* send_json returns; "await asyncio.sleep(...)"
SendOk(c) ==
  /\ app \in {"up", "stopping"} /\ conn[c].pc = "sending"
  /\ conn' = [conn EXCEPT ![c].pc = "sleep", ![c].wake = now + PushInterval]
  /\ ev' = NoEvent
  /\ UNCHANGED pureVars
  /\ UNCHANGED <<variant, apiKeyEnv, gtfsUrlEnv, localOffset, now, app,
                 LATEST_DEPARTURES, LAST_OK_UTC, pollerPc, pollerWake,
                 upstreamCalled, snapshotWritten>>

\* a transport failure that tears every handler down, not only the one it hit
SendFail_ClosesAll(c) ==
  /\ app \in {"up", "stopping"} /\ conn[c].pc = "sending"
  /\ conn' = [d \in Conns |->
               IF conn[d].pc = "new" THEN conn[d] ELSE ClosedConn]
  /\ ev' = NoEvent
  /\ UNCHANGED pureVars
  /\ UNCHANGED <<variant, apiKeyEnv, gtfsUrlEnv, localOffset, now, app,
                 LATEST_DEPARTURES, LAST_OK_UTC, pollerPc, pollerWake,
                 upstreamCalled, snapshotWritten>>

\* send_json raises (WebSocketDisconnect or another exception): the handler ends
SendFail(c) ==
  /\ app \in {"up", "stopping"} /\ conn[c].pc = "sending"
  /\ conn' = [conn EXCEPT ![c] = ClosedConn]
  /\ ev' = NoEvent
  /\ UNCHANGED pureVars
  /\ UNCHANGED <<variant, apiKeyEnv, gtfsUrlEnv, localOffset, now, app,
                 LATEST_DEPARTURES, LAST_OK_UTC, pollerPc, pollerWake,
                 upstreamCalled, snapshotWritten>>

(* ------------------------------- queries -------------------------------- *)
\* api_status (A) / status (C)
StatusResponse ==
  IF variant = "A"
  THEN [ok |-> TRUE, online |-> _is_online, line |-> METRO_LINE,
        last_ok_utc |-> IF LAST_OK_UTC # {} THEN {IsoFormat(TheOne(LAST_OK_UTC))} ELSE {},
        time_utc |-> IsoFormat(now)]
  ELSE [ok |-> TRUE, time |-> IsoFormatNaive(now)]

StatusQuery ==
  /\ app = "up"
  /\ ev' = [type |-> "status", resp |-> StatusResponse]
  /\ UNCHANGED pureVars
  /\ UNCHANGED <<variant, apiKeyEnv, gtfsUrlEnv, localOffset, now, app,
                 LATEST_DEPARTURES, LAST_OK_UTC, pollerPc, pollerWake, conn,
                 upstreamCalled, snapshotWritten>>

\* api_latest, the same in A and C
LatestResponse ==
  [count |-> Len(LATEST_DEPARTURES), departures |-> LATEST_DEPARTURES]

LatestQuery ==
  /\ app = "up"
  /\ ev' = [type |-> "latest", resp |-> LatestResponse]
  /\ UNCHANGED pureVars
  /\ UNCHANGED <<variant, apiKeyEnv, gtfsUrlEnv, localOffset, now, app,
                 LATEST_DEPARTURES, LAST_OK_UTC, pollerPc, pollerWake, conn,
                 upstreamCalled, snapshotWritten>>

(* -------------------------------- time ---------------------------------- *)
\* asyncio timers: a sleep whose deadline the clock has reached is over
Fired(task, t) ==
  IF task.pc = "sleep" /\ t >= task.wake
  THEN [task EXCEPT !.pc = "ready", !.wake = 0]
  ELSE task

\* a task that is ready runs before the clock moves on
NoneReady ==
  /\ ~(app = "up" /\ pollerPc = "ready")
  /\ \A c \in Conns : conn[c].pc # "ready"

Tick ==
  /\ app \in {"up", "stopping"}
  /\ now + TickSeconds <= MaxTime
  /\ NoneReady
  /\ now' = now + TickSeconds
  /\ pollerPc' = Fired([pc |-> pollerPc, wake |-> pollerWake], now').pc
  /\ pollerWake' = Fired([pc |-> pollerPc, wake |-> pollerWake], now').wake
  /\ conn' = [c \in Conns |-> Fired(conn[c], now')]
  /\ ev' = NoEvent
  /\ UNCHANGED pureVars
  /\ UNCHANGED <<variant, apiKeyEnv, gtfsUrlEnv, localOffset, app,
                 LATEST_DEPARTURES, LAST_OK_UTC, upstreamCalled, snapshotWritten>>

(* --------------------------- the specification ------------------------- *)
NotCalled == [fn |-> "none"]

Init ==
  /\ variant \in {"A", "C"}
  /\ apiKeyEnv \in IF variant = "A" THEN ApiKeyEnvs ELSE { <<>> }
  /\ gtfsUrlEnv \in IF variant = "C" THEN GtfsUrlEnvs ELSE { <<>> }
  /\ localOffset = 0
  /\ now = 0
  /\ app = "starting"
  /\ LATEST_DEPARTURES = <<>>
  /\ LAST_OK_UTC = {}
  /\ pollerPc = "none"
  /\ pollerWake = 0
  /\ conn = [c \in Conns |-> NewConn]
  /\ ev = NoEvent
  /\ upstreamCalled = FALSE
  /\ snapshotWritten = FALSE
  /\ doc = <<>>
  /\ result = NotCalled

Next ==
  \/ Startup
  \/ PollerCycleNoKey
  \/ PollerRequestA
  \/ \E resp \in ResponsesA : PollerResponseA(resp)
  \/ \E read \in ReadsC : PollerCycleFileC(read)
  \/ PollerRequestC
  \/ \E read \in ReadsC : PollerResponseC(read)
  \/ \E c \in Conns : Connect(c)
  \/ \E c \in Conns : PushA(c)
  \/ \E c \in Conns : \E rnd \in RandomDraws : PushC(c, rnd)
  \/ \E c \in Conns : SendOk(c)
  \/ \E c \in Conns : SendFail(c)
  \/ StatusQuery
  \/ LatestQuery
  \/ Tick

Spec == Init /\ [][Next]_vars

\* the steps of the poller task and of the websocket handlers' loop bodies
PollerStep ==
  \/ PollerCycleNoKey
  \/ PollerRequestA
  \/ \E resp \in ResponsesA : PollerResponseA(resp)
  \/ \E read \in ReadsC : PollerCycleFileC(read)
  \/ PollerRequestC
  \/ \E read \in ReadsC : PollerResponseC(read)

PushStep ==
  \E c \in Conns : PushA(c) \/ \E rnd \in RandomDraws : PushC(c, rnd)

\* the event loop always goes on: it runs a task that is ready, a request
\* ends (the HTTP clients have timeouts), or the clock advances
SpecFair == Spec /\ WF_vars(Tick \/ PollerStep \/ PushStep)

\* the same system with the shutdown handler
NextLifecycle ==
  \/ Next
  \/ Shutdown
  \/ PollerCancelled
  \/ ShutdownDone

SpecLifecycle == Init /\ [][NextLifecycle]_vars

\* the event loop runs a task whose cancellation was requested, and resumes
\* the handler that awaits a task once that task has ended
SpecLifecycleFair ==
  SpecLifecycle /\ WF_vars(PollerCancelled) /\ WF_vars(ShutdownDone)

(* ------------------------ the parsers on their own ---------------------- *)
\* While a parser is exercised on its own the backend is not running.
SystemIdle ==
  /\ variant = "A"
  /\ apiKeyEnv = <<>>
  /\ gtfsUrlEnv = <<>>
  /\ localOffset = 0
  /\ now = 0
  /\ app = "starting"
  /\ LATEST_DEPARTURES = <<>>
  /\ LAST_OK_UTC = {}
  /\ pollerPc = "none"
  /\ pollerWake = 0
  /\ conn = [c \in Conns |-> NewConn]
  /\ ev = NoEvent
  /\ upstreamCalled = FALSE
  /\ snapshotWritten = FALSE

InitPure == SystemIdle /\ doc = <<>> /\ result = NotCalled

\* the document grows by one entry
AddEntry(e) ==
  /\ result = NotCalled
  /\ Len(doc) < MaxEntries
  /\ doc' = Append(doc, e)
  /\ UNCHANGED <<result, sysVars>>

Iso(wall, zone) == [fmt |-> "iso", wall |-> wall, zone |-> zone]
BadIso == [fmt |-> "bad"]
EmptyIso == [fmt |-> "empty"]

\* entries of a departure board: lines A, a-with-blank, B and none; headsign,
\* last stop or neither; predicted and scheduled stamps that parse, that do
\* not, or are missing; stamps before and after the instants of the calls
BoardEntries ==
  { DepA(<<"A">>, <<"X">>, 150),
    DepA(<<"A">>, <<"Y">>, 130),
    DepA(<<"a", " ">>, <<"Y">>, 30),
    DepA(<<"B">>, <<"X">>, 150),
    DepA(<<"B">>, <<"Y">>, 30),
    [trip |-> [headsign |-> <<"X">>],
     departure_timestamp |-> [scheduled |-> Iso(150, "Z")]],
    [route |-> [short_name |-> <<"A">>], last_stop |-> [name |-> <<"Y">>],
     departure_timestamp |-> [predicted |-> Iso(30, "+01:00"), scheduled |-> Iso(150, "Z")]],
    [route |-> [short_name |-> <<"A">>], trip |-> [headsign |-> <<" ">>],
     departure_timestamp |-> [predicted |-> BadIso, scheduled |-> Iso(150, "naive")]],
    [route |-> [short_name |-> <<"A">>], trip |-> [headsign |-> <<"X">>],
     departure_timestamp |-> [predicted |-> BadIso]],
    [route |-> [short_name |-> <<"A">>], trip |-> [headsign |-> <<"X">>],
     departure_timestamp |-> [predicted |-> EmptyIso, scheduled |-> BadIso]],
    [route |-> [short_name |-> <<"A">>],
     departure_timestamp |-> [predicted |-> Iso(150, "-01:00")]],
    [route |-> [short_name |-> <<"B">>], trip |-> [headsign |-> <<"Y">>]] }

\* the metro_line arguments and the instants of the calls
LineArgs == { <<"A">>, <<"B">>, <<" ", "b">> }
CallInstants == {0, 100}

\* out = normalize_departureboards({"departures": doc}, metro_line=line) at t
CallNormalize(line, t) ==
  /\ result = NotCalled
  /\ result' = [fn |-> "normalize_departureboards", metro_line |-> line, now |-> t,
                out |-> normalize_departureboards([departures |-> doc], line, t)]
  /\ UNCHANGED <<doc, sysVars>>

NextNorm ==
  \/ \E e \in BoardEntries : AddEntry(e)
  \/ \E line \in LineArgs, t \in CallInstants : CallNormalize(line, t)

SpecNorm == InitPure /\ [][NextNorm]_vars

\* entities of a feed message: with and without trip update, with one, several
\* or no stop-time updates, with and without arrival, equal arrival times
\* under different headsigns, a route id longer than ROUTE_ID_LEN
FeedEntities ==
  { EntityC(<<"X">>, <<>>, <<120>>),
    EntityC(<<"B">>, <<"Y">>, <<90>>),
    EntityC(<<"A">>, <<"X">>, <<90, 30>>),
    [id |-> <<"1">>],
    [trip_update |->
       [trip |-> [route_id |-> <<"A">>],
        stop_time_update |-> << [stop_id |-> <<"1">>], [arrival |-> [time |-> 0]],
                                [arrival |-> [time |-> 150]] >>]],
    EntityC(<<"R", "R", "R", "R", "R", "R", "R", "R", "R", "R", "R">>, <<>>, <<30>>),
    EntityC(<<>>, <<>>, <<30>>),
    EntityC(<<"A">>, <<"X">>, <<>>),
    [malformed |-> TRUE],
    [trip_update |->
       [trip |-> [route_id |-> <<"B">>, trip_headsign |-> <<"X">>],
        stop_time_update |-> << [malformed |-> TRUE], [arrival |-> [time |-> 150]] >>]] }

\* departures = what fetch_gtfs_rt returns for the feed message doc at t on a
\* host whose zone is off seconds east of UTC
\* (the record has no field out when fetch_gtfs_rt returned None)
CallParseGtfs(t, off) ==
  LET ret == ParseGtfsOrNone([entity |-> doc], NowTs(t, off))
  IN  /\ result = NotCalled
      /\ result' = IF ret = {}
                    THEN [fn |-> "fetch_gtfs_rt", now |-> t, localOffset |-> off,
                          returned |-> "None"]
                    ELSE [fn |-> "fetch_gtfs_rt", now |-> t, localOffset |-> off,
                          returned |-> "list", out |-> TheOne(ret)]
      /\ UNCHANGED <<doc, sysVars>>

\* departures = parse_feed_bytes(content) for the feed message doc at t
CallParseFeedBytes(t, off) ==
  /\ result = NotCalled
  /\ result' = [fn |-> "parse_feed_bytes", now |-> t, localOffset |-> off,
                returned |-> "list",
                out |-> parse_feed_bytes([entity |-> doc], NowTs(t, off))]
  /\ UNCHANGED <<doc, sysVars>>

NextGtfs ==
  \/ \E e \in FeedEntities : AddEntry(e)
  \/ \E t \in CallInstants, off \in LocalOffsets : CallParseGtfs(t, off)
  \/ \E t \in CallInstants, off \in LocalOffsets : CallParseFeedBytes(t, off)

SpecGtfs == InitPure /\ [][NextGtfs]_vars

\* a run of GTFS_LIMIT trips on one route, latest arrival first
BulkEntities ==
  [i \in 1..GTFS_LIMIT |-> EntityC(<<"X">>, <<>>, <<60 * (GTFS_LIMIT + 3 - i)>>)]

\* the feed message grows by that run
AddBulk ==
  /\ result = NotCalled
  /\ Len(doc) < MaxEntries
  /\ doc' = doc \o BulkEntities
  /\ UNCHANGED <<result, sysVars>>

\* the same bytes given to fetch_gtfs_rt and to parse_feed_bytes at the same
\* instant t on the same host
CallBothParsers(t, off) ==
  /\ result = NotCalled
  /\ result' = [fn |-> "both", now |-> t, localOffset |-> off,
                fetched |-> ParseGtfsOrNone([entity |-> doc], NowTs(t, off)),
                parsed |-> parse_feed_bytes([entity |-> doc], NowTs(t, off))]
  /\ UNCHANGED <<doc, sysVars>>

NextBoth ==
  \/ \E e \in FeedEntities : AddEntry(e)
  \/ AddBulk
  \/ \E t \in CallInstants, off \in LocalOffsets : CallBothParsers(t, off)

SpecBoth == InitPure /\ [][NextBoth]_vars

(* ------------------------------ fallback -------------------------------- *)
\* A JSON number is [num |-> n], a JSON string that int() rejects [text |-> s];
\* [scalar |-> s] is a list element that is not an object.
FallbackEntries ==
  { [line |-> <<"A">>, dest |-> <<"X">>, in_min |-> [num |-> 5]],
    [line |-> <<"a", " ">>, dest |-> <<"Y">>, in_min |-> [num |-> 3]],
    [line |-> <<"B">>, dest |-> <<"X">>, in_min |-> [num |-> 1]],
    [line |-> <<"A">>, dest |-> <<"X">>, in_min |-> [num |-> 0 - 3]],
    [line |-> <<"A">>, dest |-> <<"Y">>, in_min |-> [text |-> <<"X">>]],
    [line |-> <<"A">>, dest |-> <<" ">>],
    [scalar |-> <<"X">>],
    [dest |-> <<"Y">>, in_min |-> [num |-> 2]] }

\* what data/stations.json holds: nothing (no file), text that is not JSON, a
\* JSON list, an object without "departures", an object with the entries doc
FileStates == {"absent", "not_json", "not_a_mapping", "no_departures", "document"}

\* str(d.get("line", "")).strip().upper() != METRO_LINE
FallbackLineMatches(d) ==
  Upper(Strip(IF Has(d, "line") THEN d.line ELSE <<>>)) = METRO_LINE

\* str(d.get("dest", "-")).strip() or "-"
FallbackDest(d) ==
  LET raw == IF Has(d, "dest") THEN d.dest ELSE DASH
  IN  IF Strip(raw) # <<>> THEN Strip(raw) ELSE DASH

\* int(d.get("in_min", 0)), where it does not raise
FallbackMinutes(d) == IF Has(d, "in_min") THEN d.in_min.num ELSE 0

\* processing the entry raises: d.get on a non-object, int() of a non-number
FallbackEntryRaises(d) ==
  \/ Has(d, "scalar")
  \/ FallbackLineMatches(d) /\ Has(d, "in_min") /\ ~Has(d.in_min, "num")

RECURSIVE FallbackLoop(_)
FallbackLoop(deps) ==
  IF deps = <<>> THEN <<>>
  ELSE (IF FallbackLineMatches(Head(deps))
        THEN << [line |-> METRO_LINE, dest |-> FallbackDest(Head(deps)),
                 in_min |-> FallbackMinutes(Head(deps))] >>
        ELSE <<>>)
       \o FallbackLoop(Tail(deps))

\* A, api_fallback: the "departures" of the answer; it never raises
api_fallback(file, entries) ==
  IF file = "absent" THEN <<>>
  ELSE IF file \in {"not_json", "not_a_mapping"} THEN <<>>
  ELSE IF file = "no_departures" THEN <<>>
  ELSE IF \E i \in 1..Len(entries) : FallbackEntryRaises(entries[i]) THEN <<>>
  ELSE SortStable(FALSE, FallbackLoop(entries))

\* C, fallback: the parsed file as it is, or {"departures": []} without file;
\* json.loads raising is not caught
fallback(file, entries) ==
  IF file = "absent" THEN [raised |-> FALSE, body |-> [departures |-> <<>>]]
  ELSE IF file = "not_json" THEN [raised |-> TRUE]
  ELSE IF file = "not_a_mapping" THEN [raised |-> FALSE, body |-> <<>>]
  ELSE IF file = "no_departures" THEN [raised |-> FALSE, body |-> [meta |-> <<>>]]
  ELSE [raised |-> FALSE, body |-> [departures |-> entries]]

\* GET /api/fallback of variant A
CallFallbackA(file) ==
  /\ result = NotCalled
  /\ result' = [fn |-> "api_fallback", file |-> file, raised |-> FALSE,
                out |-> api_fallback(file, doc)]
  /\ UNCHANGED <<doc, sysVars>>

\* GET /api/fallback of variant C
CallFallbackC(file) ==
  /\ result = NotCalled
  /\ result' = [fn |-> "fallback", file |-> file, answer |-> fallback(file, doc)]
  /\ UNCHANGED <<doc, sysVars>>

NextFallback ==
  \/ \E e \in FallbackEntries : AddEntry(e)
  \/ \E file \in FileStates : CallFallbackA(file)
  \/ \E file \in FileStates : CallFallbackC(file)

SpecFallback == InitPure /\ [][NextFallback]_vars

(* ------------------------------- claims -------------------------------- *)
FailedCycle == ev.type = "cycle" /\ ev.result = "fail"
Pushed == ev.type = "push"
StatusAnswered == ev.type = "status"

\* C1: a poller cycle whose fetch or parse fails leaves LATEST_DEPARTURES and
\* LAST_OK_UTC exactly as they were, and the poller goes to its
\* inter-cycle sleep, from which the next cycle starts.
C1_FailedCycleKeepsSnapshot ==
  [][ FailedCycle' =>
        /\ LATEST_DEPARTURES' = LATEST_DEPARTURES
        /\ LAST_OK_UTC' = LAST_OK_UTC
        /\ pollerPc' = "sleep"
        /\ pollerWake' > now ]_vars

\* a failed cycle that had a snapshot and a last success to keep
C1_Witness ==
  /\ FailedCycle /\ ev.why = "neterr"
  /\ Len(LATEST_DEPARTURES) > 1
  /\ LAST_OK_UTC # {}

\* the staleness rule of the specification, written out
Fresh ==
  /\ LAST_OK_UTC # {}
  /\ \A t \in LAST_OK_UTC : now - t <= OFFLINE_AFTER_SECONDS

\* C2: in the backend that evaluates liveness (variant A), every status answer
\* and every pushed message has online true exactly when a last success exists
\* and is no older than OFFLINE_AFTER_SECONDS at that moment; the value only
\* depends on the clock and the last success.
C2_OnlineIffFresh ==
  variant = "A" =>
    /\ StatusAnswered => (ev.resp.online <=> Fresh)
    /\ Pushed => (ev.msg.online <=> Fresh)

\* a status answer given when the last success has just become too old
C2_Witness ==
  /\ variant = "A" /\ StatusAnswered
  /\ LAST_OK_UTC # {} /\ ~Fresh
  /\ ~ev.resp.online

\* C3: with no credential configured the poller never calls the upstream and
\* never writes the snapshot, every status answer has online false and
\* last_ok_utc null, and the poller task stays alive (ready or asleep).
C3_NoCredentialStaysOffline ==
  (variant = "A" /\ API_KEY = <<>>) =>
    /\ ~upstreamCalled
    /\ ~snapshotWritten
    /\ LATEST_DEPARTURES = <<>> /\ LAST_OK_UTC = {}
    /\ pollerPc \in {"none", "ready", "sleep"}
    /\ ev.type = "cycle" => ev.why = "credential"
    /\ StatusAnswered => (~ev.resp.online /\ ev.resp.last_ok_utc = {})

\* a status answer after the credential-less poller has been through cycles
C3_Witness ==
  /\ variant = "A" /\ API_KEY = <<>> /\ apiKeyEnv # <<>>
  /\ StatusAnswered /\ now > 0 /\ pollerPc = "sleep"

\* C4 (as claimed): a push made while the snapshot is empty carries exactly one
\* placeholder record: the configured line, the placeholder destination, zero
\* minutes.
C4_EmptySnapshotPushesPlaceholder ==
  (Pushed /\ LATEST_DEPARTURES = <<>>) =>
    /\ Len(ev.msg.departures) = 1
    /\ ev.msg.departures[1].dest = DASH
    /\ ev.msg.departures[1].in_min = 0
    /\ variant = "A" => ev.msg.departures[1].line = METRO_LINE

\* C5: a pushed message carries at most PUSH_LIMIT departures, and when the
\* snapshot is not empty they are its first min(PUSH_LIMIT, n) records in order.
C5_PushIsSnapshotPrefix ==
  Pushed =>
    /\ Len(ev.msg.departures) <= PUSH_LIMIT
    /\ LATEST_DEPARTURES # <<>> =>
         /\ Len(ev.msg.departures) =
              (IF Len(LATEST_DEPARTURES) < PUSH_LIMIT
               THEN Len(LATEST_DEPARTURES) ELSE PUSH_LIMIT)
         /\ \A i \in 1..Len(ev.msg.departures) :
              ev.msg.departures[i] = LATEST_DEPARTURES[i]

\* a push of a snapshot longer than one message
C5_Witness ==
  /\ Pushed
  /\ Len(LATEST_DEPARTURES) > PUSH_LIMIT
  /\ Len(ev.msg.departures) = PUSH_LIMIT

\* C6 (as claimed): every pushed message carries an online flag equal to the
\* staleness evaluation at the moment of the push, and the current instant.
C6_PushCarriesOnlineFlag ==
  Pushed =>
    /\ Has(ev.msg, "online")
    /\ ev.msg.online <=> Fresh
    /\ Has(ev.msg, "t")
    /\ ev.msg.t \in {IsoFormat(now), IsoFormatNaive(now)}

Normalized == result.fn = "normalize_departureboards"
GtfsParsed == result.fn = "fetch_gtfs_rt" /\ Has(result, "out")

\* non-decreasing in_min, and ascending destination among equal in_min
SortedByMinutesThenDest(out) ==
  \A i \in 1..(Len(out) - 1) :
    \/ out[i].in_min < out[i + 1].in_min
    \/ out[i].in_min = out[i + 1].in_min /\ ~StrLess(out[i + 1].dest, out[i].dest)

\* C7 (as claimed): the list either parser returns is sorted non-decreasing by
\* minutes_until, and records with equal minutes_until are in ascending
\* destination order.
C7_ParsersSortByMinutesThenDest ==
  (Normalized \/ GtfsParsed) => SortedByMinutesThenDest(result.out)

\* the entry's route short name, trimmed and upper-cased, is the target line
NamesLine(dep, line) ==
  /\ Has(dep, "route") /\ Has(dep.route, "short_name")
  /\ Upper(Strip(dep.route.short_name)) = Upper(Strip(line))

EntriesOfLine(line) == { i \in 1..Len(doc) : NamesLine(doc[i], line) }

\* C8: every record normalize_departureboards returns comes from an entry whose
\* route short name (trimmed, case-insensitive) is the target line, there are
\* no more records than such entries, and none when there is no such entry.
C8_OnlyTargetLineInOutput ==
  Normalized =>
    /\ Len(result.out) <= Cardinality(EntriesOfLine(result.metro_line))
    /\ \A k \in 1..Len(result.out) :
         \E i \in EntriesOfLine(result.metro_line) :
           /\ result.out[k].dest = DestOf(doc[i])
           /\ \E t \in UsedTs(doc[i]) : result.out[k].t_utc = IsoFormat(t)
    /\ EntriesOfLine(result.metro_line) = {} => result.out = <<>>

\* a call on a payload that mixes the target line with other lines
C8_Witness ==
  /\ Normalized
  /\ result.out # <<>>
  /\ \E i \in 1..Len(doc) :
       /\ ~NamesLine(doc[i], result.metro_line)
       /\ UsedTs(doc[i]) # {}

\* every entry is of line B and has a scheduled timestamp that parses
AllLineBScheduled ==
  /\ doc # <<>>
  /\ \A i \in 1..Len(doc) :
       /\ Has(doc[i], "route") /\ Has(doc[i].route, "short_name")
       /\ doc[i].route.short_name = <<"B">>
       /\ Has(doc[i], "departure_timestamp")
       /\ _parse_iso(doc[i].departure_timestamp, "scheduled") # {}

CalledForLineB == Normalized /\ result.metro_line = <<"B">> /\ AllLineBScheduled

NonNegative(list) == \A i \in 1..Len(list) : list[i].in_min >= 0

\* C10 (as claimed): in_min is >= 0 in every record of every list produced or
\* served: parser outputs, the stored snapshot, pushed messages, the latest
\* answer and the fallback answer.
C10_MinutesNeverNegative ==
  /\ NonNegative(LATEST_DEPARTURES)
  /\ Pushed => NonNegative(ev.msg.departures)
  /\ ev.type = "latest" => NonNegative(ev.resp.departures)
  /\ Has(result, "out") => NonNegative(result.out)

\* the step in which the handler of connection c ends on a failed send
HandlerEnds(c) == conn[c].pc = "sending" /\ conn'[c].pc = "closed"

\* C11: the step in which one broadcaster ends on a disconnect or failed push
\* leaves the snapshot, the last-success instant, the poller task and its
\* timer, and every other broadcaster exactly as they were, so the poller and
\* the other broadcasters go on from where they are.
C11_FailureEndsOnlyThatBroadcaster ==
  [][ \A c \in Conns :
        HandlerEnds(c) =>
          /\ LATEST_DEPARTURES' = LATEST_DEPARTURES
          /\ LAST_OK_UTC' = LAST_OK_UTC
          /\ pollerPc' = pollerPc /\ pollerWake' = pollerWake
          /\ pollerPc \in {"ready", "awaiting", "sleep"} \/ ~PollTaskCreated
          /\ \A d \in Conns \ {c} : conn'[d] = conn[d] ]_vars

\* after one broadcaster has ended, a later poller cycle has stored a snapshot
\* and another broadcaster pushes it
C11_Witness ==
  \E c, d \in Conns :
    /\ c # d /\ conn[c].pc = "closed"
    /\ Pushed /\ ev.by = d
    /\ now > 0 /\ Len(LATEST_DEPARTURES) > 1
    /\ ev.msg.departures = Prefix(LATEST_DEPARTURES, PUSH_LIMIT)

\* the poller task has ended (or was never created)
PollerTerminated == pollerPc \in {"none", "cancelled"}

\* C12: once shutdown has started the poller is cancelled where it is
\* suspended (fetch, sleep, or not yet resumed) without running further,
\* shutdown always completes, it completes only once the poller has
\* terminated, and the snapshot is never written from the start of shutdown on.
C12_ShutdownCancelsAndAwaitsPoller ==
  /\ [](app = "stopped" => PollerTerminated)
  /\ [][ (app = "stopping" \/ app = "stopped") =>
           ( LATEST_DEPARTURES' = LATEST_DEPARTURES /\ LAST_OK_UTC' = LAST_OK_UTC
             /\ ev'.type # "cycle" /\ upstreamCalled' = upstreamCalled ) ]_vars
  /\ [][ (pollerPc # "cancelled" /\ pollerPc' = "cancelled") =>
           (app = "stopping" /\ pollerWake' = pollerWake) ]_vars
  /\ (app = "stopping") ~> (app = "stopped")

\* shutdown has completed after cancelling a poller whose sleep, begun after
\* a stored snapshot, had not run out
C12_Witness ==
  /\ app = "stopped" /\ pollerPc = "cancelled"
  /\ pollerWake > now
  /\ snapshotWritten

\* the lists a fetch can return at this instant, each one whole
CycleOutputs ==
  IF variant = "A"
  THEN UNION { FetchGolemioResult(resp) : resp \in ResponsesA }
  ELSE UNION { FetchGtfsResult(read) : read \in ReadsFor(gtfsUrlEnv) }

\* C13: whatever the interleaving, a latest answer holds the stored list in
\* full and its length, a push of a non-empty snapshot holds its leading
\* records, and the stored list only ever changes by a successful poller
\* cycle putting the whole list of that one cycle in its place.
C13_ReadsSeeWholeSnapshot ==
  /\ [](ev.type = "latest" =>
          (ev.resp.departures = LATEST_DEPARTURES
           /\ ev.resp.count = Len(LATEST_DEPARTURES)))
  /\ []((Pushed /\ LATEST_DEPARTURES # <<>>) =>
          ev.msg.departures = Prefix(LATEST_DEPARTURES, PUSH_LIMIT))
  /\ [][ (LATEST_DEPARTURES' # LATEST_DEPARTURES) =>
           ( ev'.type = "cycle" /\ ev'.result = "ok"
             /\ LATEST_DEPARTURES' \in CycleOutputs ) ]_vars

\* a latest query answered while the poller is suspended in its next fetch
C13_Witness ==
  /\ ev.type = "latest" /\ ev.resp.count > 1
  /\ pollerPc = "awaiting" /\ now > 0

\* an entry of the fallback file that is not an object, or whose in_min is
\* not a number
WrongShape(d) == Has(d, "scalar") \/ (Has(d, "in_min") /\ ~Has(d.in_min, "num"))

\* the fallback file is absent or malformed
FallbackFileBad(file) ==
  \/ file \in {"absent", "not_json", "not_a_mapping"}
  \/ file = "document" /\ \E i \in 1..Len(doc) : WrongShape(doc[i])

\* C14 (as claimed): a fallback query never raises, and when the file is
\* absent, not valid JSON or holds entries of the wrong shape the answer is an
\* empty departures list.
C14_FallbackNeverRaises ==
  /\ result.fn = "api_fallback" =>
       /\ ~result.raised
       /\ FallbackFileBad(result.file) => result.out = <<>>
  /\ result.fn = "fallback" =>
       /\ ~result.answer.raised
       /\ FallbackFileBad(result.file) => result.answer.body = [departures |-> <<>>]

\* the configured interval between cycles
CycleInterval == IF variant = "A" THEN REFRESH_SECONDS ELSE POLL_INTERVAL

\* the poller task exists and has not ended
PollerRunning == pollerPc \in {"ready", "awaiting", "sleep"}

CycleEnded == ev.type = "cycle"

\* C15: every fetch attempt, failed or not, is followed by one sleep of the
\* configured interval; the poller leaves that sleep only when it has run
\* out, to start the next attempt; an attempt starts only at the top of the
\* loop; and while the clock can still advance, from any point after an
\* attempt has ended another attempt ends later, without limit on failures.
C15_OneFixedSleepBetweenAttempts ==
  /\ [][ CycleEnded' =>
           (pollerPc' = "sleep" /\ pollerWake' = now' + CycleInterval) ]_vars
  /\ [][ (pollerPc = "sleep" /\ pollerPc' # "sleep") =>
           (pollerPc' = "ready" /\ now' >= pollerWake) ]_vars
  /\ [][ (CycleEnded' \/ (pollerPc # "awaiting" /\ pollerPc' = "awaiting")) =>
           pollerPc \in {"ready", "awaiting"} ]_vars
  /\ (PollerRunning /\ ~CycleEnded /\ now + TickSeconds <= MaxTime) ~> CycleEnded

\* the third failed attempt in a row, one interval after the second
C15_Witness ==
  /\ FailedCycle /\ ev.why # "credential"
  /\ now >= 2 * TickSeconds
  /\ ~snapshotWritten
  /\ pollerPc = "sleep" /\ pollerWake = now + CycleInterval

BinaryParsed == result.fn \in {"fetch_gtfs_rt", "parse_feed_bytes"}

\* the stop-time updates of an entity that carry an arrival time
ArrivalsOf(e) ==
  IF Has(e, "malformed") \/ ~Has(e, "trip_update") THEN {}
  ELSE { j \in 1..Len(e.trip_update.stop_time_update) :
           /\ Has(e.trip_update.stop_time_update[j], "arrival")
           /\ e.trip_update.stop_time_update[j].arrival.time # 0 }

\* the entities of the feed message that are well formed and give a record
Yielding == { i \in 1..Len(doc) : ArrivalsOf(doc[i]) # {} }

\* C16 (as claimed): whatever fails inside one entity or one stop-time update,
\* the binary parser returns a list, and the list has the record of every
\* well-formed entity that carries an arrival time.
C16_EntityFailureSkipsOnlyThatEntity ==
  BinaryParsed =>
    /\ result.returned = "list"
    /\ Len(result.out) = Cardinality(Yielding)

\* the record the first arrival-carrying update of entity e gives at now_ts
RecordOfFirstArrival(e, now_ts) ==
  LET stus == e.trip_update.stop_time_update
      first == CHOOSE j \in ArrivalsOf(e) : \A k \in ArrivalsOf(e) : j <= k
      route == IF Has(e.trip_update.trip, "route_id")
               THEN Prefix(e.trip_update.trip.route_id, ROUTE_ID_LEN) ELSE <<>>
      sign == IF Has(e.trip_update.trip, "trip_headsign")
              THEN e.trip_update.trip.trip_headsign ELSE <<>>
      minutes == (stus[first].arrival.time - now_ts) \div 60
  IN  [line |-> IF route # <<>> THEN route ELSE QMARK,
       dest |-> IF sign # <<>> THEN sign ELSE IF route # <<>> THEN route ELSE QMARK,
       in_min |-> IF minutes > 0 THEN minutes ELSE 0]

\* no entity and no stop-time update of the feed message is malformed
NothingRaises ==
  \A i \in 1..Len(doc) :
    /\ ~Has(doc[i], "malformed")
    /\ Has(doc[i], "trip_update") =>
         \A j \in 1..Len(doc[i].trip_update.stop_time_update) :
           ~Has(doc[i].trip_update.stop_time_update[j], "malformed")

\* C17: for a feed message in which nothing raises, either binary parser
\* returns exactly one record for each entity that has a trip update with a
\* stop-time update carrying an arrival time, computed from the first such
\* update in feed order, and nothing for any other entity.
C17_OneRecordPerTripFromFirstArrival ==
  (BinaryParsed /\ NothingRaises) =>
    /\ result.returned = "list"
    /\ Len(result.out) = Cardinality(Yielding)
    /\ \A i \in Yielding :
         LET r == RecordOfFirstArrival(doc[i], NowTs(result.now, result.localOffset))
         IN  Cardinality({ k \in 1..Len(result.out) : result.out[k] = r })
               = Cardinality({ h \in Yielding :
                   RecordOfFirstArrival(doc[h], NowTs(result.now, result.localOffset)) = r })

\* fetch_gtfs_rt on a feed message with an entity of several arrivals, whose
\* first is not the earliest, and an entity that gives no record
C17_Witness ==
  /\ GtfsParsed /\ NothingRaises
  /\ \E i \in Yielding : Cardinality(ArrivalsOf(doc[i])) > 1
  /\ \E i \in 1..Len(doc) : i \notin Yielding
  /\ Len(result.out) = Cardinality(Yielding)

\* the feed message of mock_feed.py: one entity whose sole stop-time update
\* arrives 120 seconds after the instant of the call
MockFeedAt(t) ==
  /\ Len(doc) = 1 /\ Has(doc[1], "trip_update")
  /\ Len(doc[1].trip_update.stop_time_update) = 1
  /\ Has(doc[1].trip_update.stop_time_update[1], "arrival")
  /\ doc[1].trip_update.stop_time_update[1].arrival.time = t + 120

\* C18 (as claimed): every record the binary parser returns has in_min =
\* max(0, floor((arrival - now) / 60)) with now the true UTC epoch second of
\* the call, and the feed message whose one arrival lies 120 seconds ahead
\* gives exactly one record with in_min = 2.
C18_MinutesFromTrueUtcNow ==
  (BinaryParsed /\ NothingRaises) =>
    /\ \A k \in 1..Len(result.out) :
         \E i \in Yielding : result.out[k] = RecordOfFirstArrival(doc[i], result.now)
    /\ MockFeedAt(result.now) =>
         (Len(result.out) = 1 /\ result.out[1].in_min = 2)

\* the entry has a timestamp string under k that is well-formed ISO-8601
StampParses(dep, k) ==
  /\ Has(dep, "departure_timestamp") /\ Has(dep.departure_timestamp, k)
  /\ dep.departure_timestamp[k].fmt = "iso"

\* the UTC instant that string names: Z and no zone mean UTC
StampInstant(dep, k) ==
  LET stamp == dep.departure_timestamp[k]
  IN  CASE stamp.zone \in {"Z", "naive", "+00:00"} -> stamp.wall
        [] stamp.zone = "+01:00" -> stamp.wall - 3600
        [] stamp.zone = "-01:00" -> stamp.wall + 3600

\* predicted when it parses, otherwise scheduled
ChosenInstant(dep) ==
  IF StampParses(dep, "predicted") THEN StampInstant(dep, "predicted")
  ELSE StampInstant(dep, "scheduled")

\* the entries of the target line that can be placed in time
Placeable ==
  { i \in EntriesOfLine(result.metro_line) :
      StampParses(doc[i], "predicted") \/ StampParses(doc[i], "scheduled") }

\* C19: normalize_departureboards returns one record for each entry of the
\* target line of which the predicted or the scheduled timestamp parses, with
\* the predicted instant when it parses and the scheduled one otherwise; a
\* malformed, empty or missing string counts as absent, and an entry of which
\* neither parses is the only kind left out, the others still being returned.
C19_PredictedElseScheduledElseSkip ==
  Normalized =>
    /\ Len(result.out) = Cardinality(Placeable)
    /\ \A i \in Placeable :
         Cardinality({ k \in 1..Len(result.out) :
                         result.out[k].t_utc = IsoFormat(ChosenInstant(doc[i])) })
           = Cardinality({ h \in Placeable :
                             ChosenInstant(doc[h]) = ChosenInstant(doc[i]) })

\* a call on a board holding an entry whose predicted and scheduled stamps
\* both parse and differ, one whose predicted stamp is malformed, and one
\* with no stamp that parses
C19_Witness ==
  /\ Normalized /\ Len(result.out) = 2
  /\ \E i \in Placeable :
       /\ StampParses(doc[i], "predicted") /\ StampParses(doc[i], "scheduled")
       /\ StampInstant(doc[i], "predicted") # StampInstant(doc[i], "scheduled")
  /\ \E i \in Placeable : ~StampParses(doc[i], "predicted")
  /\ \E i \in EntriesOfLine(result.metro_line) : i \notin Placeable

\* the handler of c is running and the snapshot was replaced since it last
\* built a message
Behind(c) ==
  /\ conn[c].pc \in {"ready", "sending", "sleep"}
  /\ conn[c].seen # LAST_OK_UTC

\* C20 (as claimed), for the backend that keeps the instant of the replacement
\* (variant A): a push carries the snapshot stored at that moment, so never
\* one older than the handler sent before, and a handler that has not yet
\* sent the current snapshot makes its next push no later than
\* WS_PUSH_SECONDS after the replacement.
C20_NextPushWithinInterval ==
  variant = "A" =>
    /\ Pushed =>
         (ev.msg.departures = PushDeparturesA /\ conn[ev.by].seen = LAST_OK_UTC)
    /\ \A c \in Conns : \A t \in conn[c].seen :
         LAST_OK_UTC # {} /\ t <= TheOne(LAST_OK_UTC)
    /\ \A c \in Conns :
         (Behind(c) /\ conn[c].pc = "sleep") =>
           conn[c].wake <= TheOne(LAST_OK_UTC) + WS_PUSH_SECONDS

\* the stored list and the stored instant belong to one cycle: no list without
\* an instant, and every record counts its minutes from the stored instant
PairOfOneCycle ==
  /\ LAST_OK_UTC = {} => (LATEST_DEPARTURES = <<>> /\ ~snapshotWritten)
  /\ \A t \in LAST_OK_UTC :
       /\ snapshotWritten
       /\ \A k \in 1..Len(LATEST_DEPARTURES) :
            LET left == LATEST_DEPARTURES[k].t_utc.iso - t
            IN  LATEST_DEPARTURES[k].in_min = (IF left > 0 THEN left \div 60 ELSE 0)

\* C21: in variant A the stored list and LAST_OK_UTC always belong to the
\* same cycle, so every push, status answer and latest answer is made from
\* such a pair, and a successful cycle, also one that parsed no record, ends
\* with LAST_OK_UTC at the instant of that cycle.
C21_SnapshotAndInstantMoveTogether ==
  variant = "A" =>
    /\ PairOfOneCycle
    /\ (CycleEnded /\ ev.result = "ok") => LAST_OK_UTC = {now}
    /\ Pushed =>
         (conn[ev.by].seen = LAST_OK_UTC /\ ev.msg.departures = PushDeparturesA)
    /\ StatusAnswered =>
         ev.resp.last_ok_utc = { IsoFormat(t) : t \in LAST_OK_UTC }
    /\ ev.type = "latest" => ev.resp.departures = LATEST_DEPARTURES

\* a successful cycle at a later instant that parsed no record of the line:
\* the empty list is stored and the instant advances
C21_Witness ==
  /\ variant = "A" /\ CycleEnded /\ ev.result = "ok"
  /\ LATEST_DEPARTURES = <<>>
  /\ now > 0 /\ LAST_OK_UTC = {now}

BothParsed == result.fn = "both"

\* C22: for a feed message that decodes and in which nothing raises, the list
\* fetch_gtfs_rt returns is the first GTFS_LIMIT records, in order, of the
\* list parse_feed_bytes returns for the same bytes at the same instant.
C22_ParsersAgreeUpToLimit ==
  (BothParsed /\ NothingRaises) =>
    result.fetched = { Prefix(result.parsed, GTFS_LIMIT) }

\* a feed message with more arrival-carrying trips than the limit, so that
\* fetch_gtfs_rt returns fewer records than parse_feed_bytes
C22_Witness ==
  /\ BothParsed /\ NothingRaises
  /\ Len(result.parsed) > GTFS_LIMIT
  /\ \E list \in result.fetched :
       /\ Len(list) = GTFS_LIMIT
       /\ list[1] = result.parsed[1]
       /\ list[1].in_min < list[GTFS_LIMIT].in_min

====
